---- MODULE Spec2Model ----
(***************************************************************************)
(* Model of skills/beautiful-diagrams/scripts/diagram-generator.py:        *)
(* the color resolver, the three layout builders (pipeline, sequence,      *)
(* grid) and the command-line driver.                                      *)
(*                                                                         *)
(* Python strings are sequences of one-character strings.  Python values   *)
(* that can appear as a color are records [t, s, l]: t is the type tag,    *)
(* s the characters of a str (or the digits of an int), l the elements of  *)
(* a list.  An absent dictionary key is the empty sequence <<>> and a      *)
(* present one is <<value>>.                                               *)
(***************************************************************************)
EXTENDS Integers, Sequences, FiniteSets, TLC

VARIABLES color_input, color_out, seq_config, seq_out, pl_config, pl_out,
          grid_config, grid_out, main_in, main

(***************************************************************************)
(* Bounds of the explored inputs.                                          *)
(***************************************************************************)
MaxLen == 4
MaxListLen == 3
MaxActors == 8
MaxNodes == 3
MaxConnectors == 4
MaxCards == 5
MaxColumns == 3

(***************************************************************************)
(* Python values and strings                                               *)
(***************************************************************************)
PyStr(chars) == [t |-> "str", s |-> chars, l |-> <<>>]
PyList(elems) == [t |-> "list", s |-> <<>>, l |-> elems]
PyNone == [t |-> "none", s |-> <<>>, l |-> <<>>]
PyInt(digits) == [t |-> "int", s |-> digits, l |-> <<>>]

UpperLetters == <<"A","B","C","D","E","F","G","H","I","J","K","L","M",
                  "N","O","P","Q","R","S","T","U","V","W","X","Y","Z">>
LowerLetters == <<"a","b","c","d","e","f","g","h","i","j","k","l","m",
                  "n","o","p","q","r","s","t","u","v","w","x","y","z">>
HexDigits == <<"0","1","2","3","4","5","6","7","8","9","a","b","c","d","e","f">>

\* str.lower() on one character
LowerChar(c) ==
  IF \E i \in 1..26 : UpperLetters[i] = c
    THEN LowerLetters[CHOOSE i \in 1..26 : UpperLetters[i] = c]
    ELSE c

\* str.lower()
lower(str) == [i \in 1..Len(str) |-> LowerChar(str[i])]

\* str.lstrip("#"): drops every leading '#'
RECURSIVE lstrip(_)
lstrip(str) ==
  IF str # <<>> /\ Head(str) = "#" THEN lstrip(Tail(str)) ELSE str

\* str.rstrip("#"): drops every trailing '#'
RECURSIVE rstrip(_)
rstrip(str) ==
  IF str # <<>> /\ str[Len(str)] = "#"
    THEN rstrip(SubSeq(str, 1, Len(str) - 1)) ELSE str

\* str.strip("#"): drops '#' at both ends
strip(str) == rstrip(lstrip(str))

\* str.startswith("#")
startswith(str) == str # <<>> /\ str[1] = "#"

\* the slice str[a:b] (0-based, end exclusive, clipped to the string)
Slice(str, a, b) ==
  LET hi == IF b < Len(str) THEN b ELSE Len(str)
  IN  IF a >= hi THEN <<>> ELSE SubSeq(str, a + 1, hi)

IsHexChar(c) == \E i \in 1..16 : HexDigits[i] = LowerChar(c)
HexVal(c) == (CHOOSE i \in 1..16 : HexDigits[i] = LowerChar(c)) - 1

\* int(text, 16) accepts a non-empty run of hex digits (the explored
\* alphabet has no whitespace, sign, underscore or 'x'); anything else
\* raises ValueError.
IntParses(text) == text # <<>> /\ \A i \in 1..Len(text) : IsHexChar(text[i])
RECURSIVE Int16(_)
Int16(text) ==
  IF text = <<>> THEN 0
  ELSE 16 * Int16(SubSeq(text, 1, Len(text) - 1)) + HexVal(text[Len(text)])

\* format(v, "02x"): at least two lowercase hex digits, zero padded
RECURSIVE HexOf(_)
HexOf(v) == IF v < 16 THEN <<HexDigits[v + 1]>>
            ELSE HexOf(v \div 16) \o <<HexDigits[(v % 16) + 1]>>
Fmt02x(v) == IF v < 16 THEN <<"0">> \o HexOf(v) ELSE HexOf(v)

Max(a, b) == IF a >= b THEN a ELSE b
Min(a, b) == IF a <= b THEN a ELSE b

(***************************************************************************)
(* ColorResolver                                                           *)
(***************************************************************************)
SERVICE_COLORS ==
   (<<"s","l","a","c","k">> :> << <<"#","4","A","1","5","4","B">>, <<"#","3","a","1","0","4","0">> >>) @@
   (<<"c","l","o","u","d","f","l","a","r","e">> :> << <<"#","F","4","8","1","2","0">>, <<"#","d","0","6","a","1","0">> >>) @@
   (<<"g","i","t","h","u","b">> :> << <<"#","2","d","3","3","3","b">>, <<"#","1","a","1","e","2","2">> >>) @@
   (<<"j","i","r","a">> :> << <<"#","0","0","5","2","C","C">>, <<"#","0","0","3","d","9","9">> >>) @@
   (<<"l","i","n","k","e","d","i","n">> :> << <<"#","0","0","7","7","B","5">>, <<"#","0","0","5","a","8","c">> >>) @@
   (<<"c","l","a","u","d","e">> :> << <<"#","D","9","7","7","0","6">>, <<"#","b","5","6","3","0","5">> >>) @@
   (<<"a","w","s">> :> << <<"#","F","F","9","9","0","0">>, <<"#","c","c","7","a","0","0">> >>) @@
   (<<"g","c","p">> :> << <<"#","4","2","8","5","F","4">>, <<"#","2","a","6","a","c","f">> >>) @@
   (<<"a","z","u","r","e">> :> << <<"#","0","0","7","8","D","4">>, <<"#","0","0","5","a","9","e">> >>) @@
   (<<"v","e","r","c","e","l">> :> << <<"#","0","0","0","0","0","0">>, <<"#","1","a","1","a","1","a">> >>) @@
   (<<"d","o","c","k","e","r">> :> << <<"#","2","4","9","6","E","D">>, <<"#","1","a","7","a","c","4">> >>) @@
   (<<"r","e","d","i","s">> :> << <<"#","D","C","3","8","2","D">>, <<"#","b","0","2","d","2","4">> >>) @@
   (<<"p","o","s","t","g","r","e","s">> :> << <<"#","3","3","6","7","9","1">>, <<"#","2","6","4","d","6","e">> >>) @@
   (<<"m","o","n","g","o","d","b">> :> << <<"#","4","7","A","2","4","8">>, <<"#","3","7","8","a","3","8">> >>) @@
   (<<"s","t","r","i","p","e">> :> << <<"#","6","3","5","B","F","F">>, <<"#","4","a","4","4","c","c">> >>) @@
   (<<"t","e","a","l">> :> << <<"#","0","0","8","B","8","B">>, <<"#","0","0","6","d","6","d">> >>) @@
   (<<"c","o","b","a","l","t">> :> << <<"#","1","E","4","C","A","1">>, <<"#","1","6","3","a","7","a">> >>) @@
   (<<"b","r","o","n","z","e">> :> << <<"#","C","D","7","F","3","2">>, <<"#","a","8","6","6","2","8">> >>)

\* The darkening factor 0.2, in tenths.
DarkenTenths == 2

\* int(channel * (1 - factor)): the product is a non-negative float and
\* int() truncates it, which for every channel 0..255 is the floor of
\* channel * 8 / 10.
DarkenChannel_roundup(channel) ==
  Max(0, (channel * (10 - DarkenTenths) + 9) \div 10)
DarkenChannel(channel) == Max(0, (channel * (10 - DarkenTenths)) \div 10)

\* An outcome of a call: exc is "" for a normal return.
Returned(v) == [exc |-> "", val |-> v]
Raised(e) == [exc |-> e, val |-> PyNone]

\* _darken(hex_color, 0.2) on the characters of hex_color
_darken(hex_color) ==
  LET h == lstrip(hex_color)
      rs == Slice(h, 0, 2)
      gs == Slice(h, 2, 4)
      bs == Slice(h, 4, 6)
  IN  IF IntParses(rs) /\ IntParses(gs) /\ IntParses(bs)
        THEN Returned(PyStr(<<"#">> \o Fmt02x(DarkenChannel(Int16(rs)))
                                   \o Fmt02x(DarkenChannel(Int16(gs)))
                                   \o Fmt02x(DarkenChannel(Int16(bs)))))
        ELSE Raised("ValueError")

DefaultPair == PyList(<< PyStr(<<"#","3","6","4","5","4","F">>),
                         PyStr(<<"#","2","a","3","6","3","f">>) >>)

PresetPair(key) ==
  PyList(<< PyStr(SERVICE_COLORS[key][1]), PyStr(SERVICE_COLORS[key][2]) >>)

\* resolve_color with the preset lookup done on the text as written
resolve_color_caseful(ci) ==
  IF ci.t = "list" /\ Len(ci.l) = 2 THEN Returned(ci)
  ELSE IF ci.t = "str" THEN
    LET lowered == strip(ci.s)
    IN  IF lowered \in DOMAIN SERVICE_COLORS THEN Returned(PresetPair(lowered))
        ELSE LET hex_color == IF startswith(ci.s) THEN ci.s ELSE <<"#">> \o ci.s
                 dark == _darken(hex_color)
             IN  IF dark.exc # "" THEN dark
                 ELSE Returned(PyList(<< PyStr(hex_color), dark.val >>))
  ELSE Returned(DefaultPair)

\* resolve_color with a pair resolved element by element
resolve_color_firstelem(ci) ==
  IF ci.t = "list" /\ Len(ci.l) = 2 THEN
    IF ci.l[1].t = "str" /\ lower(ci.l[1].s) \in DOMAIN SERVICE_COLORS
      THEN Returned(PresetPair(lower(ci.l[1].s)))
      ELSE Returned(ci)
  ELSE IF ci.t = "str" THEN
    LET lowered == strip(lower(ci.s))
    IN  IF lowered \in DOMAIN SERVICE_COLORS THEN Returned(PresetPair(lowered))
        ELSE LET hex_color == IF startswith(ci.s) THEN ci.s ELSE <<"#">> \o ci.s
                 dark == _darken(hex_color)
             IN  IF dark.exc # "" THEN dark
                 ELSE Returned(PyList(<< PyStr(hex_color), dark.val >>))
  ELSE Returned(DefaultPair)

resolve_color(ci) ==
  IF ci.t = "list" /\ Len(ci.l) = 2 THEN Returned(ci)
  ELSE IF ci.t = "str" THEN
    LET lowered == strip(lower(ci.s))
    IN  IF lowered \in DOMAIN SERVICE_COLORS THEN Returned(PresetPair(lowered))
        ELSE LET hex_color == IF startswith(ci.s) THEN ci.s ELSE <<"#">> \o ci.s
                 dark == _darken(hex_color)
             IN  IF dark.exc # "" THEN dark
                 ELSE Returned(PyList(<< PyStr(hex_color), dark.val >>))
  ELSE Returned(DefaultPair)

(***************************************************************************)
(* Python floats (IEEE-754 binary64, round to nearest, ties to even).      *)
(* A natural number is its sequence of 15-bit limbs, least significant     *)
(* first, without high zero limbs.  A float is [neg, m, e] with value      *)
(* (-1)^neg * m * 2^e, m odd (or empty for zero); the magnitudes here      *)
(* stay far from the overflow and subnormal ranges.                        *)
(***************************************************************************)
MantissaBits == 53
LimbBits == 15
Base == 2 ^ LimbBits
FracLimbs == 5

Abs(n) == IF n < 0 THEN -n ELSE n

\* drop high zero limbs
RECURSIVE LNorm(_)
LNorm(x) ==
  IF x # <<>> /\ x[Len(x)] = 0 THEN LNorm(SubSeq(x, 1, Len(x) - 1)) ELSE x

\* the limbs of an int n >= 0
LimbsOf(n) == LNorm(<<n % Base, (n \div Base) % Base, n \div (Base * Base)>>)

\* the int with the given limbs
RECURSIVE ToInt(_)
ToInt(x) == IF x = <<>> THEN 0 ELSE x[1] + Base * ToInt(Tail(x))

LimbAt(x, i) == IF i >= 1 /\ i <= Len(x) THEN x[i] ELSE 0

RECURSIVE AddC(_, _, _, _)
AddC(x, y, i, c) ==
  IF i > Len(x) /\ i > Len(y) THEN (IF c = 0 THEN <<>> ELSE <<c>>)
  ELSE LET t == LimbAt(x, i) + LimbAt(y, i) + c
       IN  <<t % Base>> \o AddC(x, y, i + 1, t \div Base)
LAdd(x, y) == AddC(x, y, 1, 0)

\* x - y for x >= y
RECURSIVE SubC(_, _, _, _)
SubC(x, y, i, br) ==
  IF i > Len(x) THEN <<>>
  ELSE LET t == LimbAt(x, i) - LimbAt(y, i) - br
       IN  <<IF t < 0 THEN t + Base ELSE t>>
             \o SubC(x, y, i + 1, IF t < 0 THEN 1 ELSE 0)
LSub(x, y) == LNorm(SubC(x, y, 1, 0))

\* x >= y, for normalised x and y
RECURSIVE GeFrom(_, _, _)
GeFrom(x, y, i) ==
  IF i = 0 THEN TRUE
  ELSE IF x[i] # y[i] THEN x[i] > y[i]
  ELSE GeFrom(x, y, i - 1)
LGe(x, y) ==
  IF Len(x) # Len(y) THEN Len(x) > Len(y) ELSE GeFrom(x, y, Len(x))

\* x * k for 0 <= k <= Base
RECURSIVE MulC(_, _, _, _)
MulC(x, i, k, c) ==
  IF i > Len(x) THEN (IF c = 0 THEN <<>> ELSE <<c>>)
  ELSE LET t == x[i] * k + c
       IN  <<t % Base>> \o MulC(x, i + 1, k, t \div Base)
LMulSmall(x, k) == LNorm(MulC(x, 1, k, 0))

\* number of bits of a limb v >= 1
LimbLen(v) == CHOOSE k \in 1..LimbBits : 2 ^ (k - 1) <= v /\ v < 2 ^ k
BitLen(x) == IF x = <<>> THEN 0
             ELSE LimbBits * (Len(x) - 1) + LimbLen(x[Len(x)])

\* floor(x / 2^t)
ShiftRight(x, t) ==
  LET q == t \div LimbBits
      s == t % LimbBits
  IN  IF q >= Len(x) THEN <<>>
      ELSE LNorm([i \in 1..(Len(x) - q) |->
                   (x[i + q] \div (2 ^ s))
                     + (LimbAt(x, i + q + 1) % (2 ^ s)) * (2 ^ (LimbBits - s))])

\* x * 2^t
ShiftLeft(x, t) ==
  IF x = <<>> THEN <<>>
  ELSE [i \in 1..(t \div LimbBits) |-> 0] \o LMulSmall(x, 2 ^ (t % LimbBits))

\* x mod 2^t # 0
LowBitsSet(x, t) ==
  \/ \E i \in 1..Min(t \div LimbBits, Len(x)) : x[i] # 0
  \/ LimbAt(x, (t \div LimbBits) + 1) % (2 ^ (t % LimbBits)) # 0

\* bit i (from 0) of x
BitOf(x, i) == (LimbAt(x, (i \div LimbBits) + 1) \div (2 ^ (i % LimbBits))) % 2

\* number of low zero bits of x # 0
LowZeroLimbs(x) == CHOOSE k \in 0..(Len(x) - 1) :
                     x[k + 1] # 0 /\ \A i \in 1..k : x[i] = 0
LowZeros(x) ==
  LET k == LowZeroLimbs(x)
      v == x[k + 1]
  IN  LimbBits * k
        + (CHOOSE z \in 0..(LimbBits - 1) :
             v % (2 ^ (z + 1)) # 0 /\ v % (2 ^ z) = 0)

FZero == [neg |-> FALSE, m |-> <<>>, e |-> 0]

\* the unique representation with an odd mantissa
Canon(neg, x, e) ==
  LET n == LNorm(x)
  IN  IF n = <<>> THEN FZero
      ELSE [neg |-> neg, m |-> ShiftRight(n, LowZeros(n)), e |-> e + LowZeros(n)]

\* round the exact value x * 2^e to 53 significant bits
RoundF(neg, x, e) ==
  LET n == LNorm(x)
      t == BitLen(n) - MantissaBits
  IN  IF t <= 0 THEN Canon(neg, n, e)
      ELSE LET keep == ShiftRight(n, t)
               guard == BitOf(n, t - 1)
               sticky == LowBitsSet(n, t - 1)
               up == guard = 1 /\ (sticky \/ keep[1] % 2 = 1)
           IN  Canon(neg, IF up THEN LAdd(keep, <<1>>) ELSE keep, e + t)

\* float(n) for an int n
FromInt(n) == Canon(n < 0, LimbsOf(Abs(n)), 0)

\* long division of r / b for r < b: j limbs of the fraction, least
\* significant first, and the remainder left after them
RECURSIVE DivLimbs(_, _, _)
DivLimbs(r, b, j) ==
  IF j = 0 THEN <<>>
  ELSE DivLimbs((r * Base) % b, b, j - 1) \o <<(r * Base) \div b>>
RECURSIVE DivRem(_, _, _)
DivRem(r, b, j) == IF j = 0 THEN r ELSE DivRem((r * Base) % b, b, j - 1)

\* a / b for ints a and b # 0: the correctly rounded quotient.  The
\* quotient is developed to 75 fractional bits and one more bit records
\* an inexact division.
FDivInt(a, b) ==
  LET ua == Abs(a)
      ub == Abs(b)
      quot == DivLimbs(ua % ub, ub, FracLimbs) \o LimbsOf(ua \div ub)
      inexact == IF DivRem(ua % ub, ub, FracLimbs) # 0 THEN <<1>> ELSE <<>>
  IN  RoundF((a < 0) # (b < 0),
             LAdd(LMulSmall(quot, 2), inexact),
             -(FracLimbs * LimbBits + 1))

\* k * f for an int 0 <= k <= Base and a float f
FMulInt(k, f) == RoundF(f.neg, LMulSmall(f.m, k), f.e)

FNeg(f) == IF f.m = <<>> THEN f ELSE [f EXCEPT !.neg = ~ f.neg]

\* the exact sum of two floats, [neg, m, e] not yet rounded
ExactSum(x, y) ==
  LET e0 == Min(x.e, y.e)
      xs == ShiftLeft(x.m, x.e - e0)
      ys == ShiftLeft(y.m, y.e - e0)
  IN  IF x.neg = y.neg THEN [neg |-> x.neg, m |-> LAdd(xs, ys), e |-> e0]
      ELSE IF LGe(xs, ys) THEN [neg |-> x.neg, m |-> LSub(xs, ys), e |-> e0]
      ELSE [neg |-> y.neg, m |-> LSub(ys, xs), e |-> e0]

FAdd(x, y) == LET s == ExactSum(x, y) IN RoundF(s.neg, s.m, s.e)
\* the difference taken the other way round
FSub_swapped(x, y) == FAdd(y, FNeg(x))
FSub(x, y) == FAdd(x, FNeg(y))

\* x < y
FLt(x, y) == LET s == ExactSum(x, FNeg(y)) IN s.neg /\ LNorm(s.m) # <<>>

\* int(f): truncation toward zero
FInt(f) ==
  LET mag == IF f.e >= 0 THEN ToInt(ShiftLeft(f.m, f.e))
             ELSE ToInt(ShiftRight(f.m, -f.e))
  IN  IF f.neg THEN -mag ELSE mag

(***************************************************************************)
(* SequenceLayoutBuilder                                                   *)
(***************************************************************************)
\* an optional dictionary key
Absent == <<>>
Some(v) == <<v>>

\* dict.get(key, default) on an optional value
GetOr(opt, default) == IF opt = <<>> THEN default ELSE opt[1]

\* list[i] with Python's negative indices; IndexError outside -n..n-1
IndexOk(list, i) == i >= -Len(list) /\ i < Len(list)
PyIndex(list, i) == IF i >= 0 THEN list[i + 1] ELSE list[Len(list) + i + 1]

SeqPadding == 32
SeqDefaultWidth == 890

\* centers with the spacing taken over n_actors intervals
Centers_perActor(n_actors, width) ==
  LET usable == width - 2 * SeqPadding
      spacing == IF n_actors > 1 THEN FDivInt(usable, n_actors) ELSE FZero
  IN  [k \in 1..n_actors |-> FAdd(FromInt(SeqPadding), FMulInt(k - 1, spacing))]

\* centers = [padding + i * spacing for i in range(n_actors)]
Centers(n_actors, width) ==
  LET usable == width - 2 * SeqPadding
      spacing == IF n_actors > 1 THEN FDivInt(usable, n_actors - 1) ELSE FZero
  IN  [k \in 1..n_actors |-> FAdd(FromInt(SeqPadding), FMulInt(k - 1, spacing))]

\* going_left = to < frm
GoingLeft_orSame(frm, to) == to <= frm
GoingLeft(frm, to) == to < frm

NoStep == [kind |-> "", style |-> "", arrow_class |-> "",
           left_pos |-> FZero, msg_width |-> FZero, left |-> 0, width |-> 0]

\* one iteration of the loop over steps: the elements it appends, or the
\* exception it raises
RenderStep(step, centers) ==
  LET stype == GetOr(step.type, "message")
  IN  IF stype = "message" THEN
        LET frm == step.frm
            to == step.to
            left_idx == Min(frm, to)
            right_idx == Max(frm, to)
        IN  IF ~ IndexOk(centers, left_idx) \/ ~ IndexOk(centers, right_idx)
              THEN [exc |-> "IndexError", out |-> <<>>]
              ELSE LET left_pos == PyIndex(centers, left_idx)
                       msg_width == FSub(PyIndex(centers, right_idx),
                                         PyIndex(centers, left_idx))
                       going_left == GoingLeft(frm, to)
                   IN  [exc |-> "",
                        out |-> << [kind |-> "msg",
                                    style |-> GetOr(step.style, "solid"),
                                    arrow_class |-> IF going_left THEN "left" ELSE "",
                                    left_pos |-> left_pos,
                                    msg_width |-> msg_width,
                                    left |-> FInt(left_pos),
                                    width |-> FInt(msg_width)] >>]
      ELSE IF stype = "self" THEN
        IF ~ IndexOk(centers, step.actor) THEN [exc |-> "IndexError", out |-> <<>>]
        ELSE [exc |-> "",
              out |-> << [NoStep EXCEPT !.kind = "self",
                            !.left = FInt(FSub(PyIndex(centers, step.actor),
                                               FromInt(27)))] >>]
      ELSE IF stype = "note" THEN
        IF ~ IndexOk(centers, step.over) THEN [exc |-> "IndexError", out |-> <<>>]
        ELSE [exc |-> "",
              out |-> << [NoStep EXCEPT !.kind = "note",
                            !.left = FInt(PyIndex(centers, step.over)) - 60] >>]
      ELSE IF stype = "phase" THEN
        [exc |-> "", out |-> << [NoStep EXCEPT !.kind = "phase"] >>]
      ELSE IF stype = "spacer" THEN
        [exc |-> "", out |-> << [NoStep EXCEPT !.kind = "spacer"] >>]
      ELSE [exc |-> "", out |-> <<>>]

\* the loop over steps, stopping at the first exception
RECURSIVE RenderSteps(_, _, _, _)
RenderSteps(steps, i, centers, acc) ==
  IF i > Len(steps) THEN [exc |-> "", out |-> acc]
  ELSE LET r == RenderStep(steps[i], centers)
       IN  IF r.exc # "" THEN r
           ELSE RenderSteps(steps, i + 1, centers, acc \o r.out)

\* the position of the arrowhead selected by the style rules of
\* ".msg .arrow-head" (right: -1px) and ".msg .arrow-head.left" (left: -1px)
ArrowEnd(arrow_class) == IF arrow_class = "left" THEN "left" ELSE "right"

\* the first exception raised by resolve_color over a list of dicts, or ""
FirstColorError(dicts, default) ==
  IF \E i \in 1..Len(dicts) : resolve_color(GetOr(dicts[i].color, default)).exc # ""
    THEN "ValueError" ELSE ""

ColorPairs(dicts, default) ==
  [i \in 1..Len(dicts) |-> resolve_color(GetOr(dicts[i].color, default)).val]

\* what a builder returns: the document, by the parts of it that depend on
\* the config (body: the elements of the fragment, in order)
NoDocument == [exc |-> "pending", type |-> "", width |-> 0, centers |-> <<>>,
               pos_css |-> <<>>, colors |-> <<>>, rows |-> <<>>, body |-> <<>>]

generate_sequence(config) ==
  LET actors == GetOr(config.actors, <<>>)
      steps == GetOr(config.steps, <<>>)
      width == GetOr(config.width, SeqDefaultWidth)
      n_actors == Len(actors)
      centers == Centers(n_actors, width)
      color_exc == FirstColorError(actors, PyStr(<<"c","o","b","a","l","t">>))
      rendered == RenderSteps(steps, 1, centers, <<>>)
  IN  IF color_exc # "" THEN [NoDocument EXCEPT !.exc = color_exc]
      ELSE IF rendered.exc # "" THEN [NoDocument EXCEPT !.exc = rendered.exc]
      ELSE [NoDocument EXCEPT
              !.exc = "", !.type = "sequence", !.width = width,
              !.centers = centers,
              !.pos_css = [k \in 1..n_actors |-> FInt(centers[k])],
              !.colors = ColorPairs(actors, PyStr(<<"c","o","b","a","l","t">>)),
              !.body = rendered.out]

(***************************************************************************)
(* PipelineLayoutBuilder                                                   *)
(***************************************************************************)
PipelineDefaultWidth == 900
GithubName == PyStr(<<"g","i","t","h","u","b">>)

\* an element of the fragment: a node (kind trigger, components or plain)
\* with the child card below a trigger, or a connector (connector or bidi)
Element(kind, colors, child, comps) ==
  [kind |-> kind, colors |-> colors, child |-> child, comps |-> comps]

\* "if child:" holds for a dict with at least one key
ChildGiven(node) == node.child # Absent /\ ~ node.child[1].empty

\* the loop body with the test on components ahead of the test on trigger
RenderNode_componentsFirst(node) ==
  LET colors == resolve_color(GetOr(node.color, GithubName))
      trigger == GetOr(node.trigger, FALSE)
      components == GetOr(node.components, <<>>)
  IN  IF colors.exc # "" THEN [exc |-> colors.exc, out |-> <<>>]
      ELSE IF components # <<>> THEN
        [exc |-> "",
         out |-> << Element("components", colors.val, <<>>, Len(components)) >>]
      ELSE IF trigger THEN
        IF ChildGiven(node) THEN
          LET ch_colors == resolve_color(GetOr(node.child[1].color, GithubName))
          IN  IF ch_colors.exc # "" THEN [exc |-> ch_colors.exc, out |-> <<>>]
              ELSE [exc |-> "",
                    out |-> << Element("trigger", colors.val,
                                       << [kind |-> "service",
                                           colors |-> ch_colors.val] >>, 0) >>]
        ELSE [exc |-> "", out |-> << Element("trigger", colors.val, <<>>, 0) >>]
      ELSE [exc |-> "", out |-> << Element("plain", colors.val, <<>>, 0) >>]

\* one iteration of the loop over nodes
RenderNode(node) ==
  LET colors == resolve_color(GetOr(node.color, GithubName))
      trigger == GetOr(node.trigger, FALSE)
      components == GetOr(node.components, <<>>)
  IN  IF colors.exc # "" THEN [exc |-> colors.exc, out |-> <<>>]
      ELSE IF trigger THEN
        IF ChildGiven(node) THEN
          LET ch_colors == resolve_color(GetOr(node.child[1].color, GithubName))
          IN  IF ch_colors.exc # "" THEN [exc |-> ch_colors.exc, out |-> <<>>]
              ELSE [exc |-> "",
                    out |-> << Element("trigger", colors.val,
                                       << [kind |-> "service",
                                           colors |-> ch_colors.val] >>, 0) >>]
        ELSE [exc |-> "", out |-> << Element("trigger", colors.val, <<>>, 0) >>]
      ELSE IF components # <<>> THEN
        [exc |-> "",
         out |-> << Element("components", colors.val, <<>>, Len(components)) >>]
      ELSE [exc |-> "", out |-> << Element("plain", colors.val, <<>>, 0) >>]

\* the loop over nodes, stopping at the first exception
RECURSIVE RenderNodes(_, _, _)
RenderNodes(nodes, i, acc) ==
  IF i > Len(nodes) THEN [exc |-> "", out |-> acc]
  ELSE LET r == RenderNode(nodes[i])
       IN  IF r.exc # "" THEN r ELSE RenderNodes(nodes, i + 1, acc \o r.out)

\* the loop over connectors
RenderConnector(conn) ==
  IF GetOr(conn.bidirectional, FALSE)
    THEN Element("bidi", PyNone, <<>>, 0)
    ELSE Element("connector", PyNone, <<>>, 0)

\* connector i follows node i while there is one
Follows_butLast(i, connector_htmls) == i + 1 < Len(connector_htmls)
Follows(i, connector_htmls) == i < Len(connector_htmls)

\* body_parts: node 0, connector 0, node 1, ... (i counts from 0)
RECURSIVE Interleave(_, _, _)
Interleave(node_htmls, connector_htmls, i) ==
  IF i >= Len(node_htmls) THEN <<>>
  ELSE << node_htmls[i + 1] >>
         \o (IF Follows(i, connector_htmls)
               THEN << connector_htmls[i + 1] >> ELSE <<>>)
         \o Interleave(node_htmls, connector_htmls, i + 1)

generate_pipeline(config) ==
  LET nodes == GetOr(config.nodes, <<>>)
      connectors == GetOr(config.connectors, <<>>)
      width == GetOr(config.width, PipelineDefaultWidth)
      rendered == RenderNodes(nodes, 1, <<>>)
      connector_htmls == [i \in 1..Len(connectors) |-> RenderConnector(connectors[i])]
  IN  IF rendered.exc # "" THEN [NoDocument EXCEPT !.exc = rendered.exc]
      ELSE [NoDocument EXCEPT !.exc = "", !.type = "pipeline", !.width = width,
                              !.body = Interleave(rendered.out, connector_htmls, 0)]

(***************************************************************************)
(* GridLayoutBuilder                                                       *)
(***************************************************************************)
GridDefaultWidth == 800
GridDefaultColumns == 2

\* the loop over cards: the card elements, or the first exception
CardElements(cards) ==
  [i \in 1..Len(cards) |->
     [kind |-> "card", name |-> cards[i].name,
      colors |-> resolve_color(GetOr(cards[i].color, GithubName)).val,
      arrows |-> <<>>]]

\* range(start, stop, step) for step # 0
RECURSIVE Range(_, _, _)
Range(start, stop, step) ==
  IF (step > 0 /\ start >= stop) \/ (step < 0 /\ start <= stop) THEN <<>>
  ELSE <<start>> \o Range(start + step, stop, step)

\* rows with the partial last row left out
Rows_fullOnly(card_htmls, columns) ==
  LET starts == Range(0, Len(card_htmls) - columns + 1, columns)
  IN  [r \in 1..Len(starts) |-> Slice(card_htmls, starts[r], starts[r] + columns)]

\* rows = [card_htmls[i:i + columns] for i in range(0, len(card_htmls), columns)]
Rows(card_htmls, columns) ==
  LET starts == Range(0, Len(card_htmls), columns)
  IN  [r \in 1..Len(starts) |-> Slice(card_htmls, starts[r], starts[r] + columns)]

\* "if i == 0 and conn_html": the arrows go after the first row only
ArrowsAfter_anyRow(i, conn_html) == conn_html # <<>>
ArrowsAfter(i, conn_html) == i = 0 /\ conn_html # <<>>

\* body_parts: the rows one after the other, the arrows row after row 0
RECURSIVE GridBody(_, _, _)
GridBody(rows, conn_html, i) ==
  IF i >= Len(rows) THEN <<>>
  ELSE rows[i + 1]
         \o (IF ArrowsAfter(i, conn_html) THEN conn_html ELSE <<>>)
         \o GridBody(rows, conn_html, i + 1)

generate_grid(config) ==
  LET cards == GetOr(config.cards, <<>>)
      connections == GetOr(config.connections, <<>>)
      columns == GetOr(config.columns, GridDefaultColumns)
      width == GetOr(config.width, GridDefaultWidth)
      color_exc == FirstColorError(cards, GithubName)
      card_htmls == CardElements(cards)
      conn_html == IF connections # <<>>
                     THEN << [kind |-> "arrows", name |-> 0, colors |-> PyNone,
                              arrows |-> connections] >>
                     ELSE <<>>
      rows == Rows(card_htmls, columns)
  IN  IF color_exc # "" THEN [NoDocument EXCEPT !.exc = color_exc]
      ELSE IF columns = 0 THEN [NoDocument EXCEPT !.exc = "ValueError"]
      ELSE [NoDocument EXCEPT !.exc = "", !.type = "grid", !.width = width,
                              !.rows = rows,
                              !.body = GridBody(rows, conn_html, 0)]

(***************************************************************************)
(* main: the command-line driver                                           *)
(***************************************************************************)
MainDefaultWidth == 900

\* the keys of GENERATORS
GENERATORS == {"pipeline", "sequence", "grid"}

\* a JSON value of the "type" key: a string, null or an array
TypeVal(t, v) == [t |-> t, v |-> v]

\* diagram_type = config.get("type", "pipeline") with no default
DiagramType_required(config) == GetOr(config.type, TypeVal("none", ""))
\* diagram_type = config.get("type", "pipeline")
DiagramType(config) == GetOr(config.type, TypeVal("str", "pipeline"))

\* GENERATORS.get(diagram_type): the builder's name, "" for None; an
\* unhashable key raises TypeError
Lookup(diagram_type) ==
  IF diagram_type.t = "list" THEN [exc |-> "TypeError", generator |-> ""]
  ELSE IF diagram_type.t = "str" /\ diagram_type.v \in GENERATORS
    THEN [exc |-> "", generator |-> diagram_type.v]
  ELSE [exc |-> "", generator |-> ""]

\* generator(config)
RunGenerator(generator, config) ==
  IF generator = "pipeline" THEN generate_pipeline(config)
  ELSE IF generator = "sequence" THEN generate_sequence(config)
  ELSE generate_grid(config)

(***************************************************************************)
(* Inputs of resolve_color                                                 *)
(***************************************************************************)
SmallAlphabet == {"#", "0", "F", "g"}
HexSample == {"0", "7", "c", "F"}

UpperChar(c) ==
  IF \E i \in 1..26 : LowerLetters[i] = c
    THEN UpperLetters[CHOOSE i \in 1..26 : LowerLetters[i] = c]
    ELSE c

SeqsUpTo(S, n) == UNION { [1..k -> S] : k \in 0..n }

CaseVariants(key) ==
  { [i \in 1..Len(key) |-> IF i \in U THEN UpperChar(key[i]) ELSE key[i]] :
      U \in SUBSET (1..Len(key)) }

WithOptionalHash(S) == S \cup { <<"#">> \o str : str \in S }

ShortStrings == SeqsUpTo(SmallAlphabet, MaxLen)
SixDigitHex == WithOptionalHash([1..6 -> HexSample])
PresetSpellings ==
  WithOptionalHash(UNION { CaseVariants(key) : key \in DOMAIN SERVICE_COLORS })

ListElems == { PyStr(<<"#","1","1","2","2","3","3">>), PyStr(<<"z">>),
               PyStr(<<"s","l","a","c","k">>), PyNone, PyInt(<<"7">>) }
ListInputs == { PyList(l) : l \in SeqsUpTo(ListElems, MaxListLen) }

ColorInputs ==
  { PyStr(str) : str \in ShortStrings \cup SixDigitHex \cup PresetSpellings }
    \cup ListInputs
    \cup { PyNone, PyInt(<<"7">>) }

Pending == [exc |-> "pending", val |-> PyNone]

(***************************************************************************)
(* Inputs of generate_sequence                                             *)
(***************************************************************************)
SeqWidths == {Absent, Some(40), Some(64), Some(65), Some(517)}

HexColorText == PyStr(<<"#","1","1","2","2","3","3">>)
BadColorText == PyStr(<<"r","e","d">>)

\* n actors with the default color, the last one possibly with its own
ActorLists(n) ==
  { [i \in 1..n |-> [color |-> IF i = n THEN c ELSE Absent]] :
      c \in IF n = 0 THEN {Absent}
            ELSE {Absent, Some(HexColorText), Some(BadColorText)} }

\* a step dict; keys a step type does not read are 0 or absent
PlainStep(type) == [type |-> type, frm |-> 0, to |-> 0, actor |-> 0,
                    over |-> 0, style |-> Absent]
MessageStep(type, frm, to, style) ==
  [PlainStep(type) EXCEPT !.frm = frm, !.to = to, !.style = style]
SelfStep(actor) == [PlainStep(Some("self")) EXCEPT !.actor = actor]
NoteStep(over) == [PlainStep(Some("note")) EXCEPT !.over = over]
PhaseStep == PlainStep(Some("phase"))

\* indices run over the valid ones and one beyond at each end
MessageSteps(n) ==
  { MessageStep(Some("message"), f, t, st) :
      f \in -1..n, t \in -1..n, st \in {Absent, Some("dashed")} }
    \cup { MessageStep(Absent, f, t, Absent) : f \in -1..n, t \in -1..n }
OtherSteps(n) ==
  { SelfStep(a) : a \in -1..n } \cup { NoteStep(a) : a \in -1..n }
    \cup { PhaseStep, PlainStep(Some("spacer")), PlainStep(Some("arrow")) }
StepLists(n) ==
  {<<>>} \cup { <<s>> : s \in MessageSteps(n) \cup OtherSteps(n) }
         \cup { <<PhaseStep, s>> : s \in MessageSteps(n) \cup OtherSteps(n) }

SeqConfigs ==
  UNION { [actors : { Some(as) : as \in ActorLists(n) },
           steps : { Some(ss) : ss \in StepLists(n) },
           width : SeqWidths] : n \in 0..MaxActors }
    \cup [actors : {Absent}, steps : {Absent, Some(<< PhaseStep >>)},
          width : SeqWidths]

(***************************************************************************)
(* Inputs of generate_pipeline                                             *)
(***************************************************************************)
Node(color, trigger, components, child) ==
  [color |-> color, trigger |-> trigger, components |-> components,
   child |-> child]
Child(empty, color) == [empty |-> empty, color |-> color]
OneComponent == << [tag |-> Absent] >>

NodeShapes ==
  { Node(Absent, Absent, Absent, Absent),
    Node(Some(BadColorText), Absent, Absent, Absent),
    Node(Some(HexColorText), Some(FALSE), Some(OneComponent), Absent),
    Node(Absent, Some(FALSE), Some(<<>>), Some(Child(FALSE, Absent))),
    Node(Absent, Some(TRUE), Absent, Absent),
    Node(Absent, Some(TRUE), Absent, Some(Child(TRUE, Absent))),
    Node(Absent, Some(TRUE), Absent, Some(Child(FALSE, Some(HexColorText)))),
    Node(Absent, Some(TRUE), Absent, Some(Child(FALSE, Some(BadColorText)))),
    Node(Absent, Some(TRUE), Some(OneComponent), Some(Child(FALSE, Absent))) }

Connector(bidirectional) == [bidirectional |-> bidirectional]

\* c connectors, at most one of them bidirectional
ConnectorLists ==
  { [i \in 1..c |-> IF i = b THEN Connector(Some(TRUE)) ELSE Connector(Absent)] :
      c \in 0..MaxConnectors, b \in 0..MaxConnectors }

PipelineConfigs ==
  [nodes : {Absent} \cup { Some(ns) : ns \in SeqsUpTo(NodeShapes, MaxNodes) },
   connectors : {Absent} \cup { Some(cs) : cs \in ConnectorLists },
   width : {Absent, Some(700)}]

(***************************************************************************)
(* Inputs of generate_grid                                                 *)
(***************************************************************************)
\* k cards named 1..k with the default color, the last one possibly with
\* its own
CardLists ==
  { [i \in 1..k |-> [name |-> i, color |-> IF i = k THEN c ELSE Absent]] :
      k \in 0..MaxCards, c \in {Absent, Some(HexColorText), Some(BadColorText)} }

Connection(dashed) == [dashed |-> dashed]

GridConfigs ==
  [cards : {Absent} \cup { Some(cs) : cs \in CardLists },
   connections : {Absent, Some(<<>>), Some(<< Connection(Absent) >>),
                  Some(<< Connection(Absent), Connection(Some(TRUE)) >>)},
   columns : {Absent} \cup { Some(c) : c \in -1..MaxColumns },
   width : {Absent, Some(640)}]

(***************************************************************************)
(* Inputs of main                                                          *)
(***************************************************************************)
\* the state of a run: pc is the next step ("exited" and "done" are final),
\* at the step that ended the run, files the artifacts written so far
NotStarted ==
  [pc |-> "parse", at |-> "", config |-> Absent, generator |-> "",
   invoked |-> "", html |-> NoDocument, stderr |-> <<>>, stdout |-> <<>>,
   exit_status |-> Absent, files |-> {}, viewport |-> Absent]

TypeValues ==
  {Absent} \cup { Some(TypeVal("str", v)) :
                    v \in GENERATORS \cup {"Pipeline", "flow", ""} }
           \cup { Some(TypeVal("none", "")), Some(TypeVal("list", "")) }

Payload(nodes, connectors, actors, steps, cards, connections, columns) ==
  [nodes |-> nodes, connectors |-> connectors, actors |-> actors,
   steps |-> steps, cards |-> cards, connections |-> connections,
   columns |-> columns]

DefaultNode == Node(Absent, Absent, Absent, Absent)
DefaultActor == [color |-> Absent]

Payloads ==
  { Payload(Absent, Absent, Absent, Absent, Absent, Absent, Absent),
    \* every builder returns a document
    Payload(Some(<< DefaultNode, DefaultNode >>), Some(<< Connector(Absent) >>),
            Some(<< DefaultActor, DefaultActor, DefaultActor >>),
            Some(<< MessageStep(Some("message"), 2, 0, Absent) >>),
            Some(<< [name |-> 1, color |-> Absent], [name |-> 2, color |-> Absent],
                    [name |-> 3, color |-> Absent] >>),
            Some(<< Connection(Absent) >>), Some(2)),
    \* every builder raises: a color that is no hex, an index out of range
    Payload(Some(<< Node(Some(BadColorText), Absent, Absent, Absent) >>), Absent,
            Some(<< DefaultActor, DefaultActor >>),
            Some(<< MessageStep(Some("message"), 0, 5, Absent) >>),
            Some(<< [name |-> 1, color |-> Some(BadColorText)] >>),
            Absent, Absent) }

MainConfigs ==
  { [type |-> ty, width |-> w, nodes |-> p.nodes, connectors |-> p.connectors,
     actors |-> p.actors, steps |-> p.steps, cards |-> p.cards,
     connections |-> p.connections, columns |-> p.columns] :
      ty \in TypeValues, w \in {Absent, Some(700)}, p \in Payloads }

\* source: the parsed JSON object, absent if the input cannot be read or
\* parsed
MainInputs ==
  [args : [stdin : BOOLEAN, config : BOOLEAN, output : BOOLEAN,
           save_html : BOOLEAN],
   source : {Absent} \cup { Some(c) : c \in MainConfigs }]

vars == <<color_input, color_out, seq_config, seq_out, pl_config, pl_out,
          grid_config, grid_out, main_in, main>>

IdleColor == color_input = PyNone /\ color_out = Pending
IdleSeq ==
  /\ seq_config = [actors |-> Absent, steps |-> Absent, width |-> Absent]
  /\ seq_out = NoDocument
IdlePipeline ==
  /\ pl_config = [nodes |-> Absent, connectors |-> Absent, width |-> Absent]
  /\ pl_out = NoDocument
IdleGrid ==
  /\ grid_config = [cards |-> Absent, connections |-> Absent,
                    columns |-> Absent, width |-> Absent]
  /\ grid_out = NoDocument
IdleMain ==
  /\ main_in = [args |-> [stdin |-> FALSE, config |-> FALSE, output |-> FALSE,
                          save_html |-> FALSE],
                source |-> Absent]
  /\ main = NotStarted

InitColor ==
  /\ color_input \in ColorInputs
  /\ color_out = Pending
  /\ IdleSeq /\ IdlePipeline /\ IdleGrid /\ IdleMain

CallResolveColor ==
  /\ color_out = Pending
  /\ color_out' = resolve_color(color_input)
  /\ UNCHANGED <<color_input, seq_config, seq_out, pl_config, pl_out,
                 grid_config, grid_out, main_in, main>>

NextColor == CallResolveColor

SpecColor == InitColor /\ [][NextColor]_vars

InitSeq ==
  /\ seq_config \in SeqConfigs
  /\ seq_out = NoDocument
  /\ IdleColor /\ IdlePipeline /\ IdleGrid /\ IdleMain

CallGenerateSequence ==
  /\ seq_out = NoDocument
  /\ seq_out' = generate_sequence(seq_config)
  /\ UNCHANGED <<color_input, color_out, seq_config, pl_config, pl_out,
                 grid_config, grid_out, main_in, main>>

NextSeq == CallGenerateSequence

SpecSeq == InitSeq /\ [][NextSeq]_vars

InitPipeline ==
  /\ pl_config \in PipelineConfigs
  /\ pl_out = NoDocument
  /\ IdleColor /\ IdleSeq /\ IdleGrid /\ IdleMain

CallGeneratePipeline ==
  /\ pl_out = NoDocument
  /\ pl_out' = generate_pipeline(pl_config)
  /\ UNCHANGED <<color_input, color_out, seq_config, seq_out, pl_config,
                 grid_config, grid_out, main_in, main>>

NextPipeline == CallGeneratePipeline

SpecPipeline == InitPipeline /\ [][NextPipeline]_vars

InitGrid ==
  /\ grid_config \in GridConfigs
  /\ grid_out = NoDocument
  /\ IdleColor /\ IdleSeq /\ IdlePipeline /\ IdleMain

CallGenerateGrid ==
  /\ grid_out = NoDocument
  /\ grid_out' = generate_grid(grid_config)
  /\ UNCHANGED <<color_input, color_out, seq_config, seq_out, pl_config,
                 pl_out, grid_config, main_in, main>>

NextGrid == CallGenerateGrid

SpecGrid == InitGrid /\ [][NextGrid]_vars

InitMain ==
  /\ main_in \in MainInputs
  /\ main = NotStarted
  /\ IdleColor /\ IdleSeq /\ IdlePipeline /\ IdleGrid

OtherVars == <<color_input, color_out, seq_config, seq_out, pl_config, pl_out,
               grid_config, grid_out, main_in>>

\* the run ends at the current step, by sys.exit or an uncaught exception
Exit(status, message) ==
  [main EXCEPT !.pc = "exited", !.at = main.pc,
               !.stderr = Append(main.stderr, message),
               !.exit_status = Some(status)]

\* parser.parse_args(): --output is required
ParseArgs ==
  /\ main.pc = "parse"
  /\ main' = IF main_in.args.output
               THEN [main EXCEPT !.pc = "load"]
               ELSE Exit(2, "usage")
  /\ UNCHANGED OtherVars

\* json.load from stdin, else from the --config file, else an error
LoadConfig ==
  /\ main.pc = "load"
  /\ main' = IF main_in.args.stdin \/ main_in.args.config
               THEN IF main_in.source = Absent
                      THEN Exit(1, "Traceback")
                      ELSE [main EXCEPT !.pc = "dispatch",
                                        !.config = main_in.source]
               ELSE Exit(1, "Error: provide --config FILE or --stdin")
  /\ UNCHANGED OtherVars

\* the lookup of the builder
Dispatch ==
  /\ main.pc = "dispatch"
  /\ LET found == Lookup(DiagramType(main.config[1]))
     IN  main' = IF found.exc # "" THEN Exit(1, "Traceback")
                 ELSE IF found.generator = ""
                   THEN Exit(1, "Error: unknown diagram type")
                 ELSE [main EXCEPT !.pc = "generate",
                                   !.generator = found.generator]
  /\ UNCHANGED OtherVars

\* a run that carries on with whatever the builder has left when it raised
Generated_swallowed(html) ==
  [main EXCEPT !.pc = "save", !.html = html, !.invoked = main.generator]

\* the run after the builder has returned html or raised
Generated(html) ==
  IF html.exc # ""
    THEN [Exit(1, "Traceback") EXCEPT !.invoked = main.generator]
    ELSE [main EXCEPT !.pc = "save", !.html = html, !.invoked = main.generator]

\* html = generator(config)
Generate ==
  /\ main.pc = "generate"
  /\ main' = Generated(RunGenerator(main.generator, main.config[1]))
  /\ UNCHANGED OtherVars

\* Path(args.save_html).write_text(html): the file system may refuse to
\* open the file, or fail after the file has been created
SaveHtml ==
  /\ main.pc = "save"
  /\ \/ main' = IF main_in.args.save_html
                  THEN [main EXCEPT !.pc = "render",
                                    !.files = main.files \cup {"html"},
                                    !.stdout = Append(main.stdout, "HTML saved")]
                  ELSE [main EXCEPT !.pc = "render"]
     \/ main_in.args.save_html /\ main' = Exit(1, "Traceback")
     \/ /\ main_in.args.save_html
        /\ main' = [Exit(1, "Traceback") EXCEPT !.files = main.files \cup {"html"}]
  /\ UNCHANGED OtherVars

\* a render step that removes what the run has written when it fails
Render_cleanup ==
  /\ main.pc = "render"
  /\ LET width == GetOr(main.config[1].width, MainDefaultWidth)
         shown == [main EXCEPT !.viewport = Some(width)]
     IN  \/ main' = [shown EXCEPT !.pc = "done",
                                  !.files = main.files \cup {"image"},
                                  !.stdout = Append(main.stdout, "Diagram generated"),
                                  !.exit_status = Some(0)]
         \/ main' = [Exit(1, "Traceback") EXCEPT !.viewport = Some(width),
                                                 !.files = {}]
  /\ UNCHANGED OtherVars

\* screenshot_html(html, args.output, width): the browser may fail before
\* the capture, or after it while closing
Render ==
  /\ main.pc = "render"
  /\ LET width == GetOr(main.config[1].width, MainDefaultWidth)
         shown == [main EXCEPT !.viewport = Some(width)]
     IN  \/ main' = [shown EXCEPT !.pc = "done",
                                  !.files = main.files \cup {"image"},
                                  !.stdout = Append(main.stdout, "Diagram generated"),
                                  !.exit_status = Some(0)]
         \/ main' = [Exit(1, "Traceback") EXCEPT !.viewport = Some(width)]
         \/ main' = [Exit(1, "Traceback") EXCEPT !.viewport = Some(width),
                                                 !.files = main.files \cup {"image"}]
  /\ UNCHANGED OtherVars

NextMain ==
  \/ ParseArgs
  \/ LoadConfig
  \/ Dispatch
  \/ Generate
  \/ SaveHtml
  \/ Render

SpecMain == InitMain /\ [][NextMain]_vars

(***************************************************************************)
(* Properties of resolve_color (checked under SpecColor)                   *)
(***************************************************************************)
ColorDone == color_out # Pending

\* "#" followed by exactly six hex digits
IsHexColor(v) ==
  /\ v.t = "str"
  /\ Len(v.s) = 7
  /\ v.s[1] = "#"
  /\ \A i \in 2..7 : IsHexChar(v.s[i])

IsHexPair(v) ==
  v.t = "list" /\ Len(v.l) = 2 /\ IsHexColor(v.l[1]) /\ IsHexColor(v.l[2])

\* the text names a preset: a key in any letter case, with or without '#'
NamesPreset(str, key) == lower(str) = key \/ lower(str) = <<"#">> \o key
IsPresetSpelling(str) == \E key \in DOMAIN SERVICE_COLORS : NamesPreset(str, key)

\* six hex digits, with or without one leading '#'
SixDigits(str) ==
  IF Len(str) = 7 /\ str[1] = "#" THEN Tail(str) ELSE str
IsSixDigitHex(str) ==
  /\ Len(str) \in {6, 7}
  /\ Len(SixDigits(str)) = 6
  /\ \A i \in 1..6 : IsHexChar(SixDigits(str)[i])

\* Claim C1: resolve_color never raises, always returns exactly two valid
\* hex color strings, and every input that is neither a preset name, a
\* six-digit hex string nor a two-element list yields the default pair.
C1_ResolveTotal ==
  ColorDone =>
    /\ color_out.exc = ""
    /\ IsHexPair(color_out.val)
    /\ ( ~ (color_input.t = "list" /\ Len(color_input.l) = 2)
         /\ ~ (color_input.t = "str" /\ IsPresetSpelling(color_input.s))
         /\ ~ (color_input.t = "str" /\ IsSixDigitHex(color_input.s))
         => color_out.val = DefaultPair )

\* the channel c (1..3) of six hex digits
ChannelOf(digits, c) == 16 * HexVal(digits[2 * c - 1]) + HexVal(digits[2 * c])

\* Claim C2: for a six-digit hex string h (with or without '#') the result
\* is [h with a leading '#', darkened h]; each darkened channel is
\* floor(channel * 0.8), lies in 0..255, is at most the input channel and is
\* written as two lowercase zero-padded hex digits.
C2_HexDarkened ==
  (ColorDone /\ color_input.t = "str" /\ IsSixDigitHex(color_input.s)) =>
    LET digits == SixDigits(color_input.s)
        res == color_out.val
    IN  /\ color_out.exc = ""
        /\ res.t = "list" /\ Len(res.l) = 2
        /\ res.l[1] = PyStr(<<"#">> \o digits)
        /\ res.l[2].t = "str"
        /\ Len(res.l[2].s) = 7
        /\ res.l[2].s[1] = "#"
        /\ \A c \in 1..3 :
             LET inch == ChannelOf(digits, c)
                 want == (inch * 4) \div 5
                 hi == res.l[2].s[2 * c]
                 lo == res.l[2].s[2 * c + 1]
             IN  /\ hi = HexDigits[(want \div 16) + 1]
                 /\ lo = HexDigits[(want % 16) + 1]
                 /\ want \in 0..255
                 /\ want <= inch

C2_Witness ==
  /\ color_input = PyStr(<<"#","F","F","0","7","c","0">>)
  /\ color_out.exc = ""
  /\ color_out.val.l[2] = PyStr(<<"#","c","c","0","5","9","9">>)

\* Claim C3: a preset key in any letter case, with or without a leading '#',
\* resolves to exactly the stored [start, end] pair of that preset.
C3_PresetExact ==
  \A key \in DOMAIN SERVICE_COLORS :
    (ColorDone /\ color_input.t = "str" /\ NamesPreset(color_input.s, key)) =>
      /\ color_out.exc = ""
      /\ color_out.val.t = "list"
      /\ color_out.val.l = << PyStr(SERVICE_COLORS[key][1]),
                              PyStr(SERVICE_COLORS[key][2]) >>

C3_Witness ==
  /\ color_input = PyStr(<<"#","S","l","A","c","K">>)
  /\ color_out = Returned(PyList(<< PyStr(<<"#","4","A","1","5","4","B">>),
                                    PyStr(<<"#","3","a","1","0","4","0">>) >>))

\* Claim C4: a two-element list is returned unchanged, whatever its elements
\* are: no validation, no normalisation, no preset lookup.
C4_PairIdentity ==
  (ColorDone /\ color_input.t = "list" /\ Len(color_input.l) = 2) =>
    color_out = [exc |-> "", val |-> color_input]

C4_Witness ==
  /\ color_input = PyList(<< PyStr(<<"s","l","a","c","k">>), PyNone >>)
  /\ color_out.exc = ""
  /\ color_out.val = color_input

(***************************************************************************)
(* Properties of generate_sequence (checked under SpecSeq)                 *)
(***************************************************************************)
SeqReturned == seq_out.exc = ""
SeqActors == GetOr(seq_config.actors, <<>>)
SeqSteps == GetOr(seq_config.steps, <<>>)
SeqN == Len(SeqActors)
SeqW == GetOr(seq_config.width, SeqDefaultWidth)

Increasing(cs) == \A i \in 1..(Len(cs) - 1) : FLt(cs[i], cs[i + 1])

\* Claim C5 as stated: with padding P = 32, center 0 is P; for n > 1 center
\* n-1 is W - P and the centers are strictly increasing, for every width W.
C5_CentersAnyWidth ==
  SeqReturned =>
    /\ SeqN >= 1 => seq_out.centers[1] = FromInt(SeqPadding)
    /\ SeqN > 1 => /\ seq_out.centers[SeqN] = FromInt(SeqW - SeqPadding)
                   /\ Increasing(seq_out.centers)

\* Claim C5 as amended: center 0 is P; for n > 1 the centers are strictly
\* increasing exactly when W > 2P (all equal to P for W = 2P, decreasing for
\* W < 2P); center n-1 is W - P exactly when n <= 7 and in every case less
\* than one pixel away from W - P.
C5_CentersAmended ==
  SeqReturned =>
    /\ SeqN >= 1 => seq_out.centers[1] = FromInt(SeqPadding)
    /\ SeqN > 1 =>
         /\ Increasing(seq_out.centers) <=> SeqW > 2 * SeqPadding
         /\ SeqW = 2 * SeqPadding =>
              \A i \in 1..SeqN : seq_out.centers[i] = FromInt(SeqPadding)
         /\ SeqW < 2 * SeqPadding =>
              \A i \in 1..(SeqN - 1) :
                FLt(seq_out.centers[i + 1], seq_out.centers[i])
         /\ SeqN <= 7 => seq_out.centers[SeqN] = FromInt(SeqW - SeqPadding)
         /\ FLt(FromInt(SeqW - SeqPadding - 1), seq_out.centers[SeqN])
         /\ FLt(seq_out.centers[SeqN], FromInt(SeqW - SeqPadding + 1))

C5_Witness ==
  /\ SeqReturned
  /\ SeqN = 8
  /\ SeqW = 517
  /\ Increasing(seq_out.centers)
  /\ seq_out.centers[8] # FromInt(485)
  /\ FInt(seq_out.centers[8]) = 484

\* the step types that append an element
Renders(step) ==
  GetOr(step.type, "message") \in {"message", "self", "note", "phase", "spacer"}
\* the index in the rendered steps of the element of step i
BodyIndex(steps, i) == Cardinality({ j \in 1..i : Renders(steps[j]) })

\* Claim C9: a message between valid actor indices starts at
\* center[min(from,to)], is center[max(from,to)] - center[min(from,to)] wide,
\* and has its arrowhead at the left end exactly when to < from, at the
\* right end otherwise (also when from = to).
C9_MessageGeometry ==
  SeqReturned =>
    \A i \in 1..Len(SeqSteps) :
      LET step == SeqSteps[i]
          lo == IF step.frm <= step.to THEN step.frm ELSE step.to
          hi == IF step.frm <= step.to THEN step.to ELSE step.frm
          elem == seq_out.body[BodyIndex(SeqSteps, i)]
      IN  (GetOr(step.type, "message") = "message" /\ lo >= 0 /\ hi < SeqN) =>
            /\ elem.kind = "msg"
            /\ elem.left_pos = seq_out.centers[lo + 1]
            /\ elem.msg_width = FSub(seq_out.centers[hi + 1], seq_out.centers[lo + 1])
            /\ elem.left = FInt(seq_out.centers[lo + 1])
            /\ elem.width = FInt(elem.msg_width)
            /\ ArrowEnd(elem.arrow_class) = "left" <=> step.to < step.frm
            /\ ArrowEnd(elem.arrow_class) = "right" <=> step.to >= step.frm

\* three actors, one message from index 2 to index 0
C9_Witness ==
  /\ SeqReturned
  /\ SeqN = 3
  /\ seq_config.width = Absent
  /\ SeqSteps = << MessageStep(Some("message"), 2, 0, Absent) >>
  /\ seq_out.body[1].left = 32
  /\ seq_out.body[1].width = 826
  /\ ArrowEnd(seq_out.body[1].arrow_class) = "left"

(***************************************************************************)
(* Properties of generate_pipeline (checked under SpecPipeline)            *)
(***************************************************************************)
PlReturned == pl_out.exc = ""
PlNodes == GetOr(pl_config.nodes, <<>>)
PlConnectors == GetOr(pl_config.connectors, <<>>)

IsNodeElement(el) == el.kind \in {"trigger", "components", "plain"}
IsConnectorElement(el) == el.kind \in {"connector", "bidi"}

\* the cards and badges of the fragment: one per node element, and one more
\* for each child card
RECURSIVE CardCount(_)
CardCount(body) ==
  IF body = <<>> THEN 0
  ELSE (IF IsNodeElement(body[1]) THEN 1 + Len(body[1].child) ELSE 0)
         + CardCount(Tail(body))

ConnectorCount(body) ==
  Cardinality({ i \in 1..Len(body) : IsConnectorElement(body[i]) })

\* node, connector, node, ..., node: the first c nodes are each followed by
\* a connector, the others follow each other, and a node comes last
Interleaved(body, k, c) ==
  /\ Len(body) = k + c
  /\ \A i \in 1..c : IsNodeElement(body[2 * i - 1]) /\ IsConnectorElement(body[2 * i])
  /\ \A i \in (2 * c + 1)..(k + c) : IsNodeElement(body[i])

\* the nodes of the config drawn as a trigger with a child card
TriggersWithChild(nodes) ==
  { i \in 1..Len(nodes) :
      /\ nodes[i].trigger = Some(TRUE)
      /\ nodes[i].child # Absent
      /\ ~ nodes[i].child[1].empty }

\* Claim C6 as stated: k nodes of any shape and c < k-1 connectors give a
\* fragment of exactly k card/badge elements and exactly c connectors,
\* interleaved, with no connector after the last node.
C6_CountsAnyShape ==
  (PlReturned /\ Len(PlConnectors) < Len(PlNodes) - 1) =>
    /\ CardCount(pl_out.body) = Len(PlNodes)
    /\ ConnectorCount(pl_out.body) = Len(PlConnectors)
    /\ Interleaved(pl_out.body, Len(PlNodes), Len(PlConnectors))

\* Claim C6 as amended: the fragment has exactly k node elements and c
\* connectors, interleaved, with no connector after the last node; its
\* card/badge elements are k plus one child card per trigger node that
\* specifies a child.
C6_CountsAmended ==
  (PlReturned /\ Len(PlConnectors) < Len(PlNodes) - 1) =>
    /\ CardCount(pl_out.body) = Len(PlNodes) + Cardinality(TriggersWithChild(PlNodes))
    /\ Cardinality({ i \in 1..Len(pl_out.body) : IsNodeElement(pl_out.body[i]) })
         = Len(PlNodes)
    /\ ConnectorCount(pl_out.body) = Len(PlConnectors)
    /\ Interleaved(pl_out.body, Len(PlNodes), Len(PlConnectors))

\* three nodes, one of them a trigger with a child, and one connector
C6_Witness ==
  /\ PlReturned
  /\ Len(PlNodes) = 3
  /\ Len(PlConnectors) = 1
  /\ TriggersWithChild(PlNodes) = {2}
  /\ CardCount(pl_out.body) = 4
  /\ Len(pl_out.body) = 4
  /\ pl_out.body[2].kind = "connector"

(***************************************************************************)
(* Properties of generate_grid (checked under SpecGrid)                    *)
(***************************************************************************)
GridReturned == grid_out.exc = ""
GridCards == GetOr(grid_config.cards, <<>>)
GridK == Len(GridCards)
GridM == GetOr(grid_config.columns, GridDefaultColumns)
GridConnections == GetOr(grid_config.connections, <<>>)

RECURSIVE Flatten(_)
Flatten(rows) == IF rows = <<>> THEN <<>> ELSE rows[1] \o Flatten(Tail(rows))

SmallerOf(a, b) == IF a <= b THEN a ELSE b

ArrowRows(body) == { i \in 1..Len(body) : body[i].kind = "arrows" }

\* Claim C7: k cards with columns = m (a column count, m >= 1) are
\* partitioned in input order into ceil(k/m) rows; every row but the last
\* holds exactly m cards, the last between 1 and m, and the rows
\* concatenated give back the card list.
C7_RowPartition ==
  (GridReturned /\ GridM >= 1) =>
    LET rows == grid_out.rows
        n == Len(rows)
    IN  /\ n = (GridK + GridM - 1) \div GridM
        /\ \A r \in 1..(n - 1) : Len(rows[r]) = GridM
        /\ n >= 1 => Len(rows[n]) \in 1..GridM
        /\ Len(Flatten(rows)) = GridK
        /\ \A j \in 1..GridK :
             Flatten(rows)[j].kind = "card" /\ Flatten(rows)[j].name = GridCards[j].name

\* three cards with columns = 2: two rows, the second with one card
C7_Witness ==
  /\ GridReturned
  /\ GridK = 3
  /\ GridM = 2
  /\ Len(grid_out.rows) = 2
  /\ Len(grid_out.rows[1]) = 2
  /\ Len(grid_out.rows[2]) = 1
  /\ grid_out.rows[2][1].name = 3

\* Claim C8 as stated: for every k and m, a non-empty connections list
\* inserts exactly one connector row, immediately after the first m cards;
\* an empty or absent list inserts none.
C8_ArrowsAnyGrid ==
  GridReturned =>
    IF GridConnections # <<>>
      THEN /\ ArrowRows(grid_out.body) = {GridM + 1}
           /\ \A j \in 1..GridM : grid_out.body[j].kind = "card"
      ELSE ArrowRows(grid_out.body) = {}

\* Claim C8 as amended: for k >= 1 cards and m >= 1 columns a non-empty
\* connections list inserts exactly one connector row, immediately after
\* the first card row, that is after the first min(m, k) cards; with no
\* cards, with negative columns or with an empty or absent connections list
\* no connector row is inserted.
C8_ArrowsAmended ==
  GridReturned =>
    IF GridConnections # <<>> /\ GridK >= 1 /\ GridM >= 1
      THEN /\ ArrowRows(grid_out.body) = {SmallerOf(GridM, GridK) + 1}
           /\ \A j \in 1..SmallerOf(GridM, GridK) :
                grid_out.body[j].kind = "card" /\ grid_out.body[j].name = j
           /\ Len(grid_out.body) = GridK + 1
      ELSE ArrowRows(grid_out.body) = {}

\* five cards in rows of two and two connections: the arrows are third
C8_Witness ==
  /\ GridReturned
  /\ GridK = 5
  /\ GridM = 2
  /\ Len(GridConnections) = 2
  /\ grid_out.body[3].kind = "arrows"
  /\ grid_out.body[6].kind = "card"

(***************************************************************************)
(* Properties of main (checked under SpecMain)                             *)
(***************************************************************************)
\* the "type" of the config the run reads
GivenType == main_in.source[1].type
TypeIsBuilder(name) == GivenType = Some(TypeVal("str", name))
TypeRecognized == \E name \in {"pipeline", "sequence", "grid"} : TypeIsBuilder(name)

\* the run has gone through the dispatch on the type
Dispatched ==
  \/ main.pc \in {"generate", "save", "render", "done"}
  \/ main.pc = "exited" /\ main.at \in {"dispatch", "generate", "save", "render"}

\* Claim C10: a config without "type" goes to the pipeline builder; type
\* pipeline, sequence or grid goes to the builder of that name; any other
\* type is a fatal error: a message on the error stream, a non-zero exit
\* status, and no builder invoked.
C10_Dispatch ==
  Dispatched =>
    /\ GivenType = Absent =>
         main.generator = "pipeline" /\ main.invoked \in {"", "pipeline"}
    /\ \A name \in {"pipeline", "sequence", "grid"} :
         TypeIsBuilder(name) =>
           main.generator = name /\ main.invoked \in {"", name}
    /\ (GivenType = Absent \/ TypeRecognized) =>
         /\ main.at # "dispatch"
         /\ main.pc \in {"save", "render", "done"} => main.invoked = main.generator
    /\ (GivenType # Absent /\ ~ TypeRecognized) =>
         /\ main.pc = "exited"
         /\ main.at = "dispatch"
         /\ main.exit_status # Absent /\ main.exit_status # Some(0)
         /\ main.stderr # <<>>
         /\ main.invoked = ""
         /\ main.html = NoDocument

\* a config without "type" was drawn by the pipeline builder
C10_Witness ==
  /\ main.pc = "done"
  /\ GivenType = Absent
  /\ main.invoked = "pipeline"
  /\ main.html.type = "pipeline"
  /\ main.exit_status = Some(0)

\* the run has ended, and how
Terminal == main.pc \in {"done", "exited"}
Succeeded == main.pc = "done" /\ main.exit_status = Some(0)
FailedAt(steps) == main.pc = "exited" /\ main.at \in steps

\* the artifacts the command line asks for
Requested ==
  {"image"} \cup (IF main_in.args.save_html THEN {"html"} ELSE {})

\* Claim C11 as stated: in every terminal state either the run succeeded
\* and every requested artifact exists, or it failed (a failure of the
\* render step included) and none of its artifacts has been written.
C11_AllOrNothing ==
  Terminal =>
    \/ Succeeded /\ main.files = Requested
    \/ ~ Succeeded /\ main.files = {}

\* Claim C11 as amended: a run that succeeded has written every requested
\* artifact; a run that failed before the markup is saved has written
\* nothing; a run that failed in the render step has no success status,
\* leaves the saved markup file in place when --save-html was given, and
\* may or may not leave the image.
C11_ArtifactsAmended ==
  Terminal =>
    /\ Succeeded \/ main.pc = "exited"
    /\ Succeeded => main.files = Requested
    /\ FailedAt({"parse", "load", "dispatch", "generate"}) => main.files = {}
    /\ main.pc = "exited" =>
         main.exit_status # Absent /\ main.exit_status # Some(0)
    /\ FailedAt({"render"}) =>
         /\ "html" \in main.files <=> main_in.args.save_html
         /\ main.files \subseteq Requested

\* the render step failed after the markup file had been saved
C11_Witness ==
  /\ FailedAt({"render"})
  /\ main_in.args.save_html
  /\ main.files = {"html"}
  /\ main.html.exc = ""
  /\ main.viewport # Absent

(***************************************************************************)
(* Shapes and order of the pipeline fragment (checked under SpecPipeline)  *)
(***************************************************************************)
\* the node elements of the fragment, in order
NodeElements(body) == SelectSeq(body, IsNodeElement)

TriggerSet(node) == node.trigger = Some(TRUE)
HasComponents(node) == node.components # Absent /\ node.components[1] # <<>>

\* Claim C12: every node is drawn in exactly one shape: the trigger shape
\* if its trigger flag is set (its components, if any, are then not drawn),
\* otherwise the components shape if its components list is non-empty,
\* otherwise the plain card; a child card is drawn only for a trigger node
\* that specifies a child.
C12_ShapePrecedence ==
  PlReturned =>
    LET drawn == NodeElements(pl_out.body)
    IN  /\ Len(drawn) = Len(PlNodes)
        /\ \A i \in 1..Len(PlNodes) :
             LET node == PlNodes[i]
                 elem == drawn[i]
             IN  /\ elem.kind \in {"trigger", "components", "plain"}
                 /\ TriggerSet(node) => elem.kind = "trigger" /\ elem.comps = 0
                 /\ (~ TriggerSet(node) /\ HasComponents(node)) =>
                      /\ elem.kind = "components"
                      /\ elem.comps = Len(node.components[1])
                 /\ (~ TriggerSet(node) /\ ~ HasComponents(node)) =>
                      elem.kind = "plain" /\ elem.comps = 0
                 /\ elem.child # <<>> =>
                      TriggerSet(node) /\ node.child # Absent

\* a trigger node with components and a child next to a components node
\* that names a child: the first is a badge with its child card and no
\* components, the second a components card with no child card
C12_Witness ==
  /\ PlReturned
  /\ Len(PlNodes) = 2
  /\ TriggerSet(PlNodes[1]) /\ HasComponents(PlNodes[1])
  /\ PlNodes[1].child # Absent
  /\ ~ TriggerSet(PlNodes[2]) /\ PlNodes[2].child # Absent
  /\ NodeElements(pl_out.body)[1].kind = "trigger"
  /\ NodeElements(pl_out.body)[1].comps = 0
  /\ NodeElements(pl_out.body)[1].child # <<>>
  /\ NodeElements(pl_out.body)[2].kind = "plain"
  /\ NodeElements(pl_out.body)[2].child = <<>>

\* Claim C13: for every number of nodes k and of connectors c (c >= k
\* included) the body parts are node 0, connector 0, node 1, connector 1,
\* ..., ending with the last node: connector i stands only between node i
\* and node i+1, and no connector comes after the last node.
C13_StrictInterleave ==
  PlReturned =>
    LET body == pl_out.body
        n == Len(body)
    IN  /\ n >= 1 => IsNodeElement(body[1]) /\ IsNodeElement(body[n])
        /\ \A p \in 1..n :
             IsConnectorElement(body[p]) =>
               /\ p > 1 /\ p < n
               /\ IsNodeElement(body[p - 1]) /\ IsNodeElement(body[p + 1])
               /\ body[p] = RenderConnector(PlConnectors[p \div 2])
        /\ Len(NodeElements(body)) = Len(PlNodes)

(***************************************************************************)
(* The width handed to the render step (checked under SpecMain)            *)
(***************************************************************************)
\* Claim C14: for every diagram type and every config, with or without an
\* explicit width, the viewport width main passes to screenshot_html is
\* the pixel width the selected builder used for the body of the document.
C14_ViewportIsBodyWidth ==
  main.viewport # Absent =>
    /\ main.html.exc = ""
    /\ main.html.type = main.generator
    /\ main.viewport = Some(main.html.width)

(***************************************************************************)
(* Whole-pixel positions of messages (checked under SpecSeq)               *)
(***************************************************************************)
\* the difference between the emitted position of the right actor and the
\* emitted right end (left + width) of the message element of step i
EndGap(i) ==
  LET step == SeqSteps[i]
      hi == IF step.frm <= step.to THEN step.to ELSE step.frm
      elem == seq_out.body[BodyIndex(SeqSteps, i)]
  IN  seq_out.pos_css[hi + 1] - (elem.left + elem.width)

\* step i is a message between actor indices of 0..n-1
ValidMessage(i) ==
  LET step == SeqSteps[i]
  IN  /\ GetOr(step.type, "message") = "message"
      /\ step.frm \in 0..(SeqN - 1)
      /\ step.to \in 0..(SeqN - 1)

LeftActor(i) ==
  IF SeqSteps[i].frm <= SeqSteps[i].to THEN SeqSteps[i].frm ELSE SeqSteps[i].to

\* Claim C15 as stated: for every actor count, integer width and message
\* between valid indices, the emitted left is the truncated center of the
\* left actor, and the emitted left + width is the truncated center of the
\* right actor, the integer the .from-i rule emits for that actor.
C15_TruncationExact ==
  SeqReturned =>
    \A i \in 1..Len(SeqSteps) :
      ValidMessage(i) =>
        /\ seq_out.body[BodyIndex(SeqSteps, i)].left
             = seq_out.pos_css[LeftActor(i) + 1]
        /\ EndGap(i) = 0

\* Claim C15 as amended: the emitted left is the truncated center of the
\* left actor; the emitted left + width is within one pixel of the
\* truncated center of the right actor, and for W >= 64 it is that integer
\* or one pixel short of it, and that integer when the message starts at
\* actor 0.
C15_TruncationAmended ==
  SeqReturned =>
    \A i \in 1..Len(SeqSteps) :
      ValidMessage(i) =>
        /\ seq_out.body[BodyIndex(SeqSteps, i)].left
             = seq_out.pos_css[LeftActor(i) + 1]
        /\ seq_out.body[BodyIndex(SeqSteps, i)].left
             = FInt(seq_out.centers[LeftActor(i) + 1])
        /\ EndGap(i) \in {-1, 0, 1}
        /\ SeqW >= 2 * SeqPadding => EndGap(i) \in {0, 1}
        /\ (SeqW >= 2 * SeqPadding /\ LeftActor(i) = 0) => EndGap(i) = 0

\* three actors in 517 pixels, a message from actor 1 to actor 2: it starts
\* at 258, is 226 wide, and actor 2 is at 485
C15_Witness ==
  /\ SeqReturned
  /\ SeqN = 3
  /\ SeqW = 517
  /\ Len(SeqSteps) = 1
  /\ ValidMessage(1)
  /\ SeqSteps[1].frm = 1 /\ SeqSteps[1].to = 2
  /\ seq_out.body[1].left = 258
  /\ seq_out.body[1].width = 226
  /\ seq_out.pos_css[3] = 485
  /\ EndGap(1) = 1

(***************************************************************************)
(* Failures ahead of the render step (checked under SpecMain)              *)
(***************************************************************************)
\* the run is past the step that reads the config
PastLoad ==
  \/ main.pc \in {"dispatch", "generate", "save", "render", "done"}
  \/ FailedAt({"load", "dispatch", "generate", "save", "render"})

\* the selected builder raises on the config the run reads
BuilderRaises ==
  /\ main.generator # ""
  /\ RunGenerator(main.generator, main_in.source[1]).exc # ""

\* nothing has been written and screenshot_html has not been called
NoOutput == main.files = {} /\ main.viewport = Absent

\* Claim C16: a failure ahead of the render step leaves no output: with
\* neither --config nor --stdin, with an unrecognized type, or when the
\* selected builder raises, the markup file is never written and
\* screenshot_html is never called; the markup file is written only after
\* the builder has returned a complete document, and always before the
\* render step starts.
C16_NoOutputBeforeRender ==
  /\ (PastLoad /\ ~ main_in.args.stdin /\ ~ main_in.args.config) =>
       FailedAt({"load"}) /\ NoOutput
  /\ (Dispatched /\ GivenType # Absent /\ ~ TypeRecognized) =>
       FailedAt({"dispatch"}) /\ NoOutput
  /\ (main.pc \notin {"parse", "load", "dispatch", "generate"} /\ BuilderRaises) =>
       FailedAt({"generate"}) /\ NoOutput
  /\ FailedAt({"parse", "load", "dispatch", "generate"}) => NoOutput
  /\ "html" \in main.files =>
       /\ main_in.args.save_html
       /\ main.html.exc = ""
       /\ main.html.type = main.generator
       /\ main.invoked = main.generator
  /\ (main.viewport # Absent /\ main_in.args.save_html) => "html" \in main.files
  /\ main.pc = "render" => main.viewport = Absent /\ "image" \notin main.files

\* the sequence builder raised on a step with an index out of range while
\* --save-html was given: no file, no call of screenshot_html
C16_Witness ==
  /\ FailedAt({"generate"})
  /\ BuilderRaises
  /\ main.invoked = "sequence"
  /\ main_in.args.save_html
  /\ NoOutput
  /\ main.exit_status = Some(1)

====
